---- MODULE Spec2Model ----
(***************************************************************************)
(* A model of the recipe-app-api backend:                                  *)
(*   - the wait_for_db management command (core/management/commands),      *)
(*   - the user store: UserManager.create_user, UserSerializer and         *)
(*     AuthTokenSerializer (core/models.py, user/serializers.py),          *)
(*   - the owner-scoped recipe / tag / ingredient views (recipe/views.py)  *)
(*     together with the recipe write pipeline they call.                  *)
(* Each part has its own specification over the shared variables; a part   *)
(* leaves the other parts' variables unchanged.                            *)
(***************************************************************************)
EXTENDS Integers, Sequences, FiniteSets, TLC

VARIABLES
    \* ---- wait_for_db ----
    pc,          \* position of Command.handle
    db_up,       \* the local db_up of Command.handle
    stdout,      \* what the command has written, in order
    db,          \* the database as the environment presents it to check()
    exc,         \* the exception in flight out of self.check(), or "none"
    check_ok,    \* history: some self.check() call has returned normally
    \* ---- user store ----
    users,       \* the User table: id -> row
    lastPw,      \* history: id -> the password most recently supplied for the row
    uresp,       \* outcome of the last user-store operation
    \* ---- recipes, tags, ingredients ----
    recipes,     \* the Recipe table: a set of rows
    attrs,       \* the Tag and Ingredient tables: kind -> set of rows
    nextId,      \* table -> the id its next inserted row gets
    req,         \* the request of the recipe API in flight, or NoRequest
    resp         \* the answer to the last request handled, until the next arrives

waitVars == <<pc, db_up, stdout, db, exc, check_ok>>

userVars == <<users, lastPw, uresp>>

recipeVars == <<recipes, attrs, nextId, req, resp>>

vars == <<pc, db_up, stdout, db, exc, check_ok, users, lastPw, uresp,
          recipes, attrs, nextId, req, resp>>

-----------------------------------------------------------------------------
(* wait_for_db.py                                                          *)

\* How many "not available" lines the model lets the command write.
MaxRetries == 4

MsgWaiting == "Waiting for database"
MsgRetry == "Database not available, waiting 1 sec"
MsgAvailable == "Database Available"

\* The database is up, or down in one of the two ways check() reports.
DbStates == {"up", "down_psycopg2", "down_django"}

\* What self.check(databases=['default']) raises for a database state.
CheckRaises(d) ==
    CASE d = "up" -> "none"
      [] d = "down_psycopg2" -> "Psychopg2OpError"
      [] d = "down_django" -> "OperationalError"

\* A handler that names only the psycopg2 error.
CaughtPsycopgOnly(e) == e = "Psychopg2OpError"

\* except (Psychopg2OpError, OperationalError)
Caught(e) == e \in {"Psychopg2OpError", "OperationalError"}

Retries == Len(SelectSeq(stdout, LAMBDA m : m = MsgRetry))

\* self.stdout.write("Waiting for database"); db_up = False
WriteWaiting ==
    /\ pc = "start"
    /\ stdout' = Append(stdout, MsgWaiting)
    /\ db_up' = FALSE
    /\ pc' = "while"
    /\ UNCHANGED <<db, exc, check_ok, userVars, recipeVars>>

\* while db_up is False:
WhileTest ==
    /\ pc = "while"
    /\ pc' = IF db_up = FALSE THEN "check" ELSE "available"
    /\ UNCHANGED <<db_up, stdout, db, exc, check_ok, userVars, recipeVars>>

\* try: self.check(databases=['default']); db_up = True
CheckDb ==
    /\ pc = "check"
    /\ LET e == CheckRaises(db) IN
         IF e = "none"
         THEN /\ db_up' = TRUE
              /\ check_ok' = TRUE
              /\ exc' = "none"
              /\ pc' = "while"
         ELSE /\ Retries < MaxRetries
              /\ exc' = e
              /\ pc' = IF Caught(e) THEN "except" ELSE "crashed"
              /\ UNCHANGED <<db_up, check_ok>>
    /\ UNCHANGED <<stdout, db, userVars, recipeVars>>

\* except (...): self.stdout.write('Database not available, waiting 1 sec')
WriteRetry ==
    /\ pc = "except"
    /\ stdout' = Append(stdout, MsgRetry)
    /\ exc' = "none"
    /\ pc' = "sleep"
    /\ UNCHANGED <<db_up, db, check_ok, userVars, recipeVars>>

\* time.sleep(1)
Sleep ==
    /\ pc = "sleep"
    /\ pc' = "while"
    /\ UNCHANGED <<db_up, stdout, db, exc, check_ok, userVars, recipeVars>>

\* self.stdout.write(self.style.SUCCESS("Database Available"))
WriteAvailable ==
    /\ pc = "available"
    /\ stdout' = Append(stdout, MsgAvailable)
    /\ pc' = "done"
    /\ UNCHANGED <<db_up, db, exc, check_ok, userVars, recipeVars>>

\* The steps of Command.handle.
Handle ==
    \/ WriteWaiting
    \/ WhileTest
    \/ CheckDb
    \/ WriteRetry
    \/ Sleep
    \/ WriteAvailable

\* The environment: the database comes up or goes down at any time.
DbChange ==
    /\ pc \notin {"done", "crashed"}
    /\ \E d \in DbStates \ {db} : db' = d
    /\ UNCHANGED <<pc, db_up, stdout, exc, check_ok, userVars, recipeVars>>

-----------------------------------------------------------------------------
(* core/models.py, user/serializers.py                                     *)

\* Rows the model lets the User table hold.
MaxUsers == 2

\* password=None
PwNone == 0
\* The passwords callers supply and the salts the hasher draws.
Passwords == {1, 2}
Salts == {1, 2}

\* An e-mail address is a string: a sequence of characters.
EmailNone == <<"None">>
EmailEmpty == <<>>
ValidEmails == {<<"u", "@", "e">>, <<"u", "@", "E">>, <<"U", "@", "e">>}

NoResp == [op |-> "none", error |-> "none"]

\* str.lower() on one character, and on a string.
LowerChar(c) == CASE c = "E" -> "e" [] c = "U" -> "u" [] OTHER -> c
Lower(s) == [i \in DOMAIN s |-> LowerChar(s[i])]

\* BaseUserManager.normalize_email: lower-case what follows the last "@";
\* a string without "@" (rsplit raises ValueError) is returned as it is.
NormalizeEmail(email) ==
    LET ats == {i \in DOMAIN email : email[i] = "@"} IN
    IF ats = {} THEN email
    ELSE LET k == CHOOSE i \in ats : \A j \in ats : j <= i IN
         SubSeq(email, 1, k) \o Lower(SubSeq(email, k + 1, Len(email)))

\* The hasher's digest of a salted password: one-way, so never the password.
Digest(salt, raw) == 100 + 10 * salt + raw

\* The content of the password column when a raw string is stored in it.
RawPassword(raw) == [algo |-> "", salt |-> 0, digest |-> raw]

\* AbstractBaseUser.set_password -> make_password: None gives an unusable
\* password ("!" and random characters), anything else a salted hash.
MakePassword(raw, salt) ==
    IF raw = PwNone THEN [algo |-> "!", salt |-> salt, digest |-> 0]
    ELSE [algo |-> "pbkdf2_sha256", salt |-> salt, digest |-> Digest(salt, raw)]

\* check_password(raw, encoded)
CheckPassword(raw, enc) ==
    /\ raw # PwNone
    /\ enc.algo = "pbkdf2_sha256"
    /\ enc.digest = Digest(enc.salt, raw)

UserIds == DOMAIN users
EmailTaken(e, except) == \E i \in UserIds \ except : users[i].email = e

\* create_user assigning the password to the column as it is.
SetPasswordPlain(raw, salt) == RawPassword(raw)

\* user.set_password(password) in create_user.
SetPassword(raw, salt) == MakePassword(raw, salt)

\* if not email: raise ValueError('User must have an email address.')
EmptyEmailError == "ValueError"

\* create_user without its "if not email" check.
CreateUserOpNoCheck(op, email, password) ==
    IF EmailTaken(NormalizeEmail(email), {})
    THEN /\ uresp' = [op |-> op, error |-> "IntegrityError"]
         /\ UNCHANGED <<users, lastPw>>
    ELSE /\ Len(users) < MaxUsers
         /\ \E salt \in Salts :
              users' = Append(users, [email |-> NormalizeEmail(email),
                                      password |-> MakePassword(password, salt)])
         /\ lastPw' = Append(lastPw, password)
         /\ uresp' = [op |-> op, error |-> "none"]

\* UserManager.create_user(email, password=None): the row holds the columns
\* the operations below read or write (email, password).
CreateUserOp(op, email, password) ==
    IF email \in {EmailNone, EmailEmpty}
    THEN /\ uresp' = [op |-> op, error |-> EmptyEmailError]
         /\ UNCHANGED <<users, lastPw>>
    ELSE IF EmailTaken(NormalizeEmail(email), {})
    THEN \* email is unique=True: user.save() raises
         /\ uresp' = [op |-> op, error |-> "IntegrityError"]
         /\ UNCHANGED <<users, lastPw>>
    ELSE /\ Len(users) < MaxUsers
         /\ \E salt \in Salts :
              users' = Append(users, [email |-> NormalizeEmail(email),
                                      password |-> SetPassword(password, salt)])
         /\ lastPw' = Append(lastPw, password)
         /\ uresp' = [op |-> op, error |-> "none"]

\* get_user_model().objects.create_user(email=..., password=...)
CreateUser(email, password) ==
    /\ CreateUserOp("create_user", email, password)
    /\ UNCHANGED <<waitVars, recipeVars>>

\* UserSerializer.create(validated_data): the e-mail is a valid address and
\* the password has passed min_length.
SerializerCreate(email, password) ==
    /\ CreateUserOp("register", email, password)
    /\ UNCHANGED <<waitVars, recipeVars>>

\* A key absent from the payload of an update.
AbsentEmail == <<"Absent">>

\* password = validated_data.pop('password', None);
\* if password: user.set_password(password)
UpdatePassword(old, password, salt) ==
    IF password # PwNone THEN MakePassword(password, salt) ELSE old

\* UserSerializer.update(instance, validated_data): the unique validator of
\* the e-mail field has run before update() is called; super().update()
\* stores the e-mail as it was sent.
SerializerUpdate(id, email, password) ==
    /\ id \in UserIds
    /\ IF email # AbsentEmail /\ EmailTaken(email, {id})
       THEN /\ uresp' = [op |-> "update", error |-> "ValidationError"]
            /\ UNCHANGED <<users, lastPw>>
       ELSE /\ \E salt \in Salts :
                 users' = [users EXCEPT
                    ![id].email = IF email # AbsentEmail THEN email ELSE @,
                    ![id].password = UpdatePassword(@, password, salt)]
            /\ lastPw' = [lastPw EXCEPT ![id] = IF password # PwNone THEN password ELSE @]
            /\ uresp' = [op |-> "update", error |-> "none"]
    /\ UNCHANGED <<waitVars, recipeVars>>

\* django.contrib.auth.authenticate(username=email, password=password):
\* the row whose e-mail equals the given string, if its password checks.
AuthUser(us, email, password) ==
    LET hit == {i \in DOMAIN us : us[i].email = email} IN
    IF hit = {} THEN 0
    ELSE LET i == CHOOSE j \in hit : TRUE IN
         IF CheckPassword(password, us[i].password) THEN i ELSE 0

\* AuthTokenSerializer.validate(attrs)
Authenticate(email, password) ==
    /\ LET u == AuthUser(users, email, password) IN
         uresp' = IF u = 0
                  THEN [op |-> "authenticate", error |-> "ValidationError"]
                  ELSE [op |-> "authenticate", error |-> "none"]
    /\ UNCHANGED <<users, lastPw>>
    /\ UNCHANGED <<waitVars, recipeVars>>

-----------------------------------------------------------------------------
(* recipe/views.py and the recipe write pipeline                           *)

\* Rows the model lets the Recipe table, and each of the Tag and Ingredient
\* tables, ever hold (ids are never reused).
MaxRecipeId == 1
MaxAttrId == 2

AuthUsers == {"A", "B"}
Kinds == {"tags", "ingredients"}
\* Tag and ingredient names, ordered as the names they stand for.
AttrNames == {1, 2}
Titles == {"t1", "t2"}

\* A key that the payload of a request does not carry.
AbsentTitle == "absent"
AbsentNames == <<0>>
\* The nested lists a payload can carry: up to two names, repeats included.
NamePayloads == UNION {[1..n -> AttrNames] : n \in 0..2}

\* All orders in which a finite set of rows can be returned.
Orderings(S) ==
    {s \in [1..Cardinality(S) -> S] : \A i, j \in DOMAIN s : i # j => s[i] # s[j]}

\* get_queryset without its filter.
FilterUserAll(rows, u) == rows

\* .filter(user=self.request.user)
FilterUser(rows, u) == {r \in rows : r.user = u}

\* .order_by('-id')
OrderByIdDesc(rows) ==
    {s \in Orderings(rows) : \A i, j \in DOMAIN s : i < j => s[i].id > s[j].id}

\* .order_by('name')
OrderByNameAsc(rows) ==
    {s \in Orderings(rows) : \A i, j \in DOMAIN s : i < j => s[i].name <= s[j].name}

\* .order_by('-name'): rows of equal name come in any order.
OrderByNameDesc(rows) ==
    {s \in Orderings(rows) : \A i, j \in DOMAIN s : i < j => s[i].name >= s[j].name}

\* RecipeViewSet.get_queryset, as rows and as the ordered results.
RecipeRows(u) == FilterUser(recipes, u)
RecipeGetQueryset(u) == OrderByIdDesc(RecipeRows(u))

\* BaseRecipeAttrViewSet.get_queryset, as rows and as the ordered results.
AttrRows(kind, u) == FilterUser(attrs[kind], u)
AttrGetQueryset(kind, u) == OrderByNameDesc(AttrRows(kind, u))

\* GenericAPIView.get_object over the rows of get_queryset(): the rows with
\* that pk (none: Http404).
GetObject(rows, id) == {r \in rows : r.id = id}

\* The list and retrieve handlers are read-only: they are the values they
\* return.
ListRecipes(u) == RecipeGetQueryset(u)
ListAttrs(kind, u) == AttrGetQueryset(kind, u)
RetrieveRecipe(u, id) == GetObject(RecipeRows(u), id)

\* perform_create saving the recipe under some other account.
SaveUserOther(u) == CHOOSE v \in AuthUsers : v # u

\* RecipeViewSet.perform_create: serializer.save(user=self.request.user)
SaveUser(u) == u

\* A lookup that never finds a row.
LookupNone(rows, owner, name) == {}

\* Step 1a of get-or-create: the rows of the registry with
\* owner == current_user and name == name.
Lookup(rows, owner, name) == {r \in rows : r.user = owner /\ r.name = name}

\* Get-or-create over a list of names, from the state st = [rows, next, att,
\* step, error]: the registry, its next id, the ids attached so far, the number
\* of lookups made, and what stopped the loop. The store fails the lookup
\* numbered fail (0: none); a lookup matching several rows has no one entity
\* to reuse and fails too. Nothing is undone when the loop stops.
RECURSIVE GetOrCreate(_, _, _, _)
GetOrCreate(st, names, owner, fail) ==
    IF names = <<>> \/ st.error # "none" THEN st
    ELSE LET found == Lookup(st.rows, owner, Head(names))
             step == st.step + 1
         IN  IF step = fail
             THEN [st EXCEPT !.step = step, !.error = "OperationalError"]
             ELSE IF Cardinality(found) > 1
             THEN [st EXCEPT !.step = step, !.error = "MultipleObjectsReturned"]
             ELSE IF found # {}
             THEN GetOrCreate([st EXCEPT !.step = step,
                                         !.att = @ \cup {r.id : r \in found}],
                              Tail(names), owner, fail)
             ELSE IF st.next > MaxAttrId
             THEN [st EXCEPT !.step = step, !.error = "full"]
             ELSE GetOrCreate([st EXCEPT !.step = step,
                                  !.rows = @ \cup {[id |-> st.next, user |-> owner,
                                                    name |-> Head(names)]},
                                  !.next = @ + 1,
                                  !.att = @ \cup {st.next}],
                              Tail(names), owner, fail)

\* The state get-or-create starts from for one relation of one recipe.
Registry(kind, att, step, error) ==
    [rows |-> attrs[kind], next |-> nextId[kind], att |-> att,
     step |-> step, error |-> error]

\* A request of the recipe API: the endpoint, the authenticated user, the pk
\* of the URL and the payload (title and nested lists for a recipe, kind and
\* name for a tag or an ingredient).
Request(op, u, id, title, tagNames, ingNames, kind, name) ==
    [op |-> op, user |-> u, id |-> id, title |-> title, tags |-> tagNames,
     ingredients |-> ingNames, kind |-> kind, name |-> name]
NoRequest == Request("none", "", 0, AbsentTitle, AbsentNames, AbsentNames, "", 0)

CreateRequest(u, title, tn, gn) == Request("recipe_create", u, 0, title, tn, gn, "", 0)
UpdateRequest(u, id, title, tn, gn) == Request("recipe_update", u, id, title, tn, gn, "", 0)
DeleteRequest(u, id) ==
    Request("recipe_delete", u, id, AbsentTitle, AbsentNames, AbsentNames, "", 0)
AttrUpdateRequest(kind, u, id, name) ==
    Request("attr_update", u, id, AbsentTitle, AbsentNames, AbsentNames, kind, name)
AttrDeleteRequest(kind, u, id) ==
    Request("attr_delete", u, id, AbsentTitle, AbsentNames, AbsentNames, kind, 0)

Response(op, status) == [op |-> op, status |-> status]
NoResponse == Response("none", "")

\* A request of the set R arrives.
Send(R) ==
    /\ req = NoRequest
    /\ req' \in R
    /\ resp' = NoResponse
    /\ UNCHANGED <<recipes, attrs, nextId>>
    /\ UNCHANGED <<waitVars, userVars>>

\* How many lookups a request makes, so which of them the store can fail.
Lookups(r) ==
    (IF r.tags = AbsentNames THEN 0 ELSE Len(r.tags))
        + (IF r.ingredients = AbsentNames THEN 0 ELSE Len(r.ingredients))

\* Recipe create: persist the Recipe built from the scalar fields, then
\* get-or-create the tags, then the ingredients, attaching each result.
RecipeCreate(fail) ==
    /\ req.op = "recipe_create"
    /\ nextId["recipe"] <= MaxRecipeId
    /\ LET rid == nextId["recipe"]
           t == GetOrCreate(Registry("tags", {}, 0, "none"), req.tags, req.user, fail)
           g == GetOrCreate(Registry("ingredients", {}, t.step, t.error),
                            req.ingredients, req.user, fail)
       IN  /\ g.error # "full"
           /\ recipes' = recipes \cup
                  {[id |-> rid, user |-> SaveUser(req.user), title |-> req.title,
                    tags |-> t.att, ingredients |-> g.att]}
           /\ attrs' = [attrs EXCEPT !["tags"] = t.rows, !["ingredients"] = g.rows]
           /\ nextId' = [nextId EXCEPT !["recipe"] = rid + 1,
                                       !["tags"] = t.next, !["ingredients"] = g.next]
           /\ resp' = Response(req.op, IF g.error = "none" THEN "201" ELSE "500")
    /\ req' = NoRequest
    /\ UNCHANGED <<waitVars, userVars>>

\* An update that adds the payload's names to the relation.
RelationStartMerge(old, names) == old

\* Update: a relation whose key is present is cleared first.
RelationStart(old, names) == IF names = AbsentNames THEN old ELSE {}

\* Recipe partial update: the recipe is looked up in the caller's queryset;
\* each relation whose key is present is cleared and rebuilt by get-or-create;
\* then the scalar fields present are written.
RecipeUpdate(fail) ==
    /\ req.op = "recipe_update"
    /\ LET obj == GetObject(RecipeRows(req.user), req.id) IN
       IF obj = {}
       THEN /\ resp' = Response(req.op, "404")
            /\ UNCHANGED <<recipes, attrs, nextId>>
       ELSE LET r == CHOOSE x \in obj : TRUE
                tn == IF req.tags = AbsentNames THEN <<>> ELSE req.tags
                gn == IF req.ingredients = AbsentNames THEN <<>> ELSE req.ingredients
                t == GetOrCreate(Registry("tags", RelationStart(r.tags, req.tags),
                                          0, "none"), tn, req.user, fail)
                g == IF t.error # "none"
                     THEN Registry("ingredients", r.ingredients, t.step, t.error)
                     ELSE GetOrCreate(Registry("ingredients",
                                               RelationStart(r.ingredients, req.ingredients),
                                               t.step, "none"), gn, req.user, fail)
                ok == g.error = "none"
            IN  /\ g.error # "full"
                /\ recipes' = (recipes \ {r}) \cup
                     {[r EXCEPT !.tags = t.att, !.ingredients = g.att,
                                !.title = IF ok /\ req.title # AbsentTitle
                                          THEN req.title ELSE @]}
                /\ attrs' = [attrs EXCEPT !["tags"] = t.rows, !["ingredients"] = g.rows]
                /\ nextId' = [nextId EXCEPT !["tags"] = t.next, !["ingredients"] = g.next]
                /\ resp' = Response(req.op, IF ok THEN "200" ELSE "500")
    /\ req' = NoRequest
    /\ UNCHANGED <<waitVars, userVars>>

\* Recipe destroy: the recipe is looked up in the caller's queryset.
RecipeDelete ==
    /\ req.op = "recipe_delete"
    /\ LET obj == GetObject(RecipeRows(req.user), req.id) IN
       IF obj = {}
       THEN /\ resp' = Response(req.op, "404")
            /\ UNCHANGED recipes
       ELSE /\ recipes' = recipes \ obj
            /\ resp' = Response(req.op, "204")
    /\ req' = NoRequest
    /\ UNCHANGED <<attrs, nextId>>
    /\ UNCHANGED <<waitVars, userVars>>

\* UpdateModelMixin of TagViewSet / IngredientViewSet: rename a row of the
\* caller's queryset.
AttrUpdate ==
    /\ req.op = "attr_update"
    /\ LET obj == GetObject(AttrRows(req.kind, req.user), req.id) IN
       IF obj = {}
       THEN /\ resp' = Response(req.op, "404")
            /\ UNCHANGED attrs
       ELSE /\ attrs' = [attrs EXCEPT ![req.kind] =
                            (@ \ obj) \cup {[r EXCEPT !.name = req.name] : r \in obj}]
            /\ resp' = Response(req.op, "200")
    /\ req' = NoRequest
    /\ UNCHANGED <<recipes, nextId>>
    /\ UNCHANGED <<waitVars, userVars>>

\* DestroyModelMixin of TagViewSet / IngredientViewSet: delete a row of the
\* caller's queryset; its rows in the many-to-many tables go with it.
AttrDelete ==
    /\ req.op = "attr_delete"
    /\ LET obj == GetObject(AttrRows(req.kind, req.user), req.id) IN
       IF obj = {}
       THEN /\ resp' = Response(req.op, "404")
            /\ UNCHANGED <<attrs, recipes>>
       ELSE /\ attrs' = [attrs EXCEPT ![req.kind] = @ \ obj]
            /\ recipes' = {[r EXCEPT ![req.kind] = @ \ {req.id}] : r \in recipes}
            /\ resp' = Response(req.op, "204")
    /\ req' = NoRequest
    /\ UNCHANGED nextId
    /\ UNCHANGED <<waitVars, userVars>>

-----------------------------------------------------------------------------
(* Specifications                                                          *)

\* The command has not been started.
WaitIdle ==
    /\ pc = "start"
    /\ db_up = FALSE
    /\ stdout = <<>>
    /\ db = "up"
    /\ exc = "none"
    /\ check_ok = FALSE

\* Freshly migrated, empty tables.
UsersEmpty ==
    /\ users = <<>>
    /\ lastPw = <<>>
    /\ uresp = NoResp

RecipesEmpty ==
    /\ recipes = {}
    /\ attrs = [k \in Kinds |-> {}]
    /\ nextId = [t \in {"recipe"} \cup Kinds |-> 1]
    /\ req = NoRequest
    /\ resp = NoResponse

InitUser == WaitIdle /\ UsersEmpty /\ RecipesEmpty

NextUser ==
    \/ \E e \in ValidEmails \cup {EmailNone, EmailEmpty}, p \in Passwords \cup {PwNone} :
         CreateUser(e, p)
    \/ \E e \in ValidEmails, p \in Passwords :
         SerializerCreate(e, p)
    \/ \E id \in UserIds, e \in ValidEmails \cup {AbsentEmail}, p \in Passwords \cup {PwNone} :
         SerializerUpdate(id, e, p)
    \/ \E e \in ValidEmails, p \in Passwords :
         Authenticate(e, p)

SpecUser == InitUser /\ [][NextUser]_vars

Init == WaitIdle /\ UsersEmpty /\ RecipesEmpty

\* Two accounts using every endpoint, with a store that does not fail.
Requests ==
    {CreateRequest(u, "t1", tn, gn) :
        u \in AuthUsers, tn \in {<<>>, <<1>>},
        gn \in {<<>>, <<1>>, <<1, 2>>, <<2, 1>>}}
    \cup {UpdateRequest(u, id, AbsentTitle, <<>>, AbsentNames) :
        u \in AuthUsers, id \in 1..MaxRecipeId}
    \cup {DeleteRequest(u, id) : u \in AuthUsers, id \in 1..MaxRecipeId}
    \cup {AttrUpdateRequest(k, u, id, n) :
        k \in Kinds, u \in AuthUsers, id \in 1..MaxAttrId, n \in AttrNames}
    \cup {AttrDeleteRequest(k, u, id) :
        k \in Kinds, u \in AuthUsers, id \in 1..MaxAttrId}

Next ==
    \/ Send(Requests)
    \/ RecipeCreate(0)
    \/ RecipeUpdate(0)
    \/ RecipeDelete
    \/ AttrUpdate
    \/ AttrDelete

Spec == Init /\ [][Next]_vars

\* One account creating and updating recipes, with a store that can fail any
\* lookup.
WriteRequests ==
    {CreateRequest("A", title, tn, gn) :
        title \in Titles, tn \in NamePayloads, gn \in {<<>>, <<1>>}}
    \cup {UpdateRequest("A", id, title, tn, gn) :
        id \in 1..MaxRecipeId, title \in Titles \cup {AbsentTitle},
        tn \in NamePayloads \cup {AbsentNames}, gn \in {<<>>, <<1>>, AbsentNames}}

NextWrites ==
    \/ Send(WriteRequests)
    \/ \E fail \in 0..Lookups(req) : RecipeCreate(fail)
    \/ \E fail \in 0..Lookups(req) : RecipeUpdate(fail)

SpecWrites == Init /\ [][NextWrites]_vars

InitWait ==
    /\ pc = "start"
    /\ db_up = FALSE
    /\ stdout = <<>>
    /\ db \in DbStates
    /\ exc = "none"
    /\ check_ok = FALSE
    /\ UsersEmpty
    /\ RecipesEmpty

NextWait ==
    \/ WriteWaiting
    \/ WhileTest
    \/ CheckDb
    \/ WriteRetry
    \/ Sleep
    \/ WriteAvailable
    \/ DbChange

SpecWait == InitWait /\ [][NextWait]_vars

\* The interpreter keeps running the command: its next step is taken.
FairSpecWait == SpecWait /\ WF_vars(Handle)

-----------------------------------------------------------------------------
(* Properties of the recipe API                                            *)

\* The step is a handler answering the request in flight.
Handled == req # NoRequest /\ req' = NoRequest

\* The names of a list, and the names of the rows with the given ids.
Range(seq) == {seq[i] : i \in DOMAIN seq}
NamesOf(kind, ids, rows) == {r.name : r \in {x \in rows : x.id \in ids}}

\* The request in flight is an update or delete of an entity that exists and
\* belongs to another user than the caller.
ForeignTarget ==
    \/ /\ req.op \in {"recipe_update", "recipe_delete"}
       /\ \E r \in recipes : r.id = req.id /\ r.user # req.user
    \/ /\ req.op \in {"attr_update", "attr_delete"}
       /\ \E r \in attrs[req.kind] : r.id = req.id /\ r.user # req.user

\* C1: no list or retrieve of a user returns another user's recipe, tag or
\* ingredient; every row a request creates belongs to its caller; and an
\* update or delete aimed at another user's entity is answered not-found and
\* changes nothing.
C1_OwnerIsolation ==
    /\ [](\A b \in AuthUsers :
            /\ \A s \in ListRecipes(b) : \A i \in DOMAIN s : s[i].user = b
            /\ \A k \in Kinds : \A s \in ListAttrs(k, b) : \A i \in DOMAIN s : s[i].user = b
            /\ \A r \in recipes : r.user # b => RetrieveRecipe(b, r.id) = {})
    /\ [][Handled =>
            /\ \A r \in recipes' \ recipes :
                  (\A x \in recipes : x.id # r.id) => r.user = req.user
            /\ \A k \in Kinds : \A r \in attrs'[k] \ attrs[k] :
                  (\A x \in attrs[k] : x.id # r.id) => r.user = req.user
            /\ ForeignTarget =>
                  /\ resp'.status = "404"
                  /\ UNCHANGED <<recipes, attrs, nextId>>]_vars

\* Every recipe id is taken, by recipes with a tag and an ingredient, and a
\* recipe delete has just been answered not-found: its target was a recipe
\* of another user than the caller.
C1_Witness ==
    /\ resp = Response("recipe_delete", "404")
    /\ \A id \in 1..MaxRecipeId :
          \E r \in recipes : r.id = id /\ r.tags # {} /\ r.ingredients # {}

\* C4: a create whose payload has no tags and a list of distinct ingredient
\* names, none yet an ingredient of the caller, is answered 201 and adds
\* exactly one Recipe, owned by the caller, with one attached ingredient per
\* name, each owned by the caller.
C4_CreateWithNewIngredients ==
    [][(/\ Handled
        /\ req.op = "recipe_create"
        /\ req.tags = <<>>
        /\ Cardinality(Range(req.ingredients)) = Len(req.ingredients)
        /\ \A n \in Range(req.ingredients) : Lookup(attrs["ingredients"], req.user, n) = {})
       => /\ resp'.status = "201"
          /\ \E r \in recipes' :
               /\ r \notin recipes
               /\ recipes' = recipes \cup {r}
               /\ r.user = req.user
               /\ r.title = req.title
               /\ Cardinality(r.ingredients) = Len(req.ingredients)
               /\ NamesOf("ingredients", r.ingredients, attrs'["ingredients"])
                     = Range(req.ingredients)
               /\ \A x \in attrs'["ingredients"] :
                     x.id \in r.ingredients => x.user = req.user]_vars

\* A recipe just created with two ingredients.
C4_Witness ==
    /\ resp = Response("recipe_create", "201")
    /\ \E r \in recipes :
         /\ Cardinality(r.ingredients) = 2
         /\ \A x \in attrs["ingredients"] : x.id \in r.ingredients => x.user = r.user

\* C8 as stated: every list of a user's tags or ingredients is in ascending
\* order of name.
C8_ListAscending ==
    \A k \in Kinds, u \in AuthUsers : \A s \in ListAttrs(k, u) :
        \A i, j \in DOMAIN s : i < j => s[i].name <= s[j].name

\* C8 (amended): every list of a user's tags or ingredients holds exactly that
\* user's rows of the kind, in descending order of name.
C8_ListDescending ==
    \A k \in Kinds, u \in AuthUsers :
        /\ ListAttrs(k, u) # {}
        /\ \A s \in ListAttrs(k, u) :
              /\ Range(s) = {r \in attrs[k] : r.user = u}
              /\ Len(s) = Cardinality(Range(s))
              /\ \A i, j \in DOMAIN s : i < j => s[i].name >= s[j].name

\* A list of two rows whose first was created after its second.
C8_Witness ==
    \E k \in Kinds, u \in AuthUsers : \E s \in ListAttrs(k, u) :
        /\ Len(s) = 2
        /\ s[1].name > s[2].name
        /\ s[1].id > s[2].id

\* The id of the recipe the request in flight writes.
WrittenId == IF req.op = "recipe_create" THEN nextId["recipe"] ELSE req.id

\* No two rows of a registry share owner and name.
OnePerOwnerName ==
    \A k \in Kinds : \A r, q \in attrs[k] :
        (r.user = q.user /\ r.name = q.name) => r = q

\* C2: under recipe creates and updates, no tag or ingredient row is created
\* for an (owner, name) that has a row, so (owner, name) never has two rows;
\* and a request answered with success has attached, for each of its names
\* that had a row, that row.
C2_GetOrCreateReuses ==
    /\ []OnePerOwnerName
    /\ [][Handled =>
            /\ \A k \in Kinds : \A r \in attrs'[k] \ attrs[k] :
                  Lookup(attrs[k], r.user, r.name) = {}
            /\ resp'.status \in {"200", "201"} =>
                  \A k \in Kinds :
                     req[k] # AbsentNames =>
                        \A n \in Range(req[k]) : \A q \in Lookup(attrs[k], req.user, n) :
                           \E r \in recipes' : r.id = WrittenId /\ q.id \in r[k]]_vars

\* Two tag rows exist and an update has left the recipe with the first alone:
\* some request named a tag that had a row.
C2_Witness ==
    /\ resp = Response("recipe_update", "200")
    /\ Cardinality(attrs["tags"]) = 2
    /\ \E r \in recipes : r.tags = {1}

\* C3: a partial update answered with success leaves each relation whose key
\* is present holding one row per name of the payload and nothing else, and
\* leaves each relation and the title whose key is absent, the owner and every
\* other recipe as they were.
C3_UpdateReplaces ==
    [][(Handled /\ req.op = "recipe_update" /\ resp'.status = "200") =>
         \E r \in recipes : \E n \in recipes' :
            /\ r.id = req.id
            /\ n.id = req.id
            /\ recipes' \ {n} = recipes \ {r}
            /\ n.user = r.user
            /\ n.title = IF req.title = AbsentTitle THEN r.title ELSE req.title
            /\ \A k \in Kinds :
                 IF req[k] = AbsentNames
                 THEN n[k] = r[k]
                 ELSE /\ NamesOf(k, n[k], attrs'[k]) = Range(req[k])
                      /\ Cardinality(n[k]) = Cardinality(Range(req[k]))
                      /\ n[k] \subseteq {x.id : x \in attrs'[k]}]_vars

\* An update has detached every tag of a recipe that keeps its ingredient.
C3_Witness ==
    /\ resp = Response("recipe_update", "200")
    /\ \E r \in recipes :
         /\ r.tags = {}
         /\ attrs["tags"] # {}
         /\ r.ingredients # {}

-----------------------------------------------------------------------------
(* Properties of the user store                                            *)

\* C5: for every valid (email, password), a successful create_user(email,
\* password) followed by authenticate with the same email and password
\* returns a user, and that user has that email.
C5_CreateThenAuthenticate ==
    [][\A e \in ValidEmails, p \in Passwords :
         (CreateUser(e, p) /\ uresp'.error = "none")
            => /\ AuthUser(users', e, p) # 0
               /\ users'[AuthUser(users', e, p)].email = e]_vars

\* C6 as stated: create_user with an empty or missing email fails with
\* ValidationError and leaves the user store unchanged.
C6_EmptyEmailValidationError ==
    [][\A e \in {EmailNone, EmailEmpty}, p \in Passwords \cup {PwNone} :
         CreateUser(e, p) => (uresp'.error = "ValidationError" /\ users' = users)]_vars

\* C6 (amended): create_user with an empty or missing email fails with
\* ValueError and leaves the user store unchanged.
C6_EmptyEmailValueError ==
    [][\A e \in {EmailNone, EmailEmpty}, p \in Passwords \cup {PwNone} :
         CreateUser(e, p) => (uresp'.error = "ValueError" /\ users' = users)]_vars

\* A non-empty store on which create_user has just refused an empty email.
C6_Witness ==
    /\ uresp = [op |-> "create_user", error |-> "ValueError"]
    /\ Len(users) >= 1

\* C7: every stored password is never a supplied plaintext and verifies
\* against the password most recently supplied for its row; an update whose
\* payload carries no password leaves the stored hash as it was.
C7_PasswordsHashed ==
    /\ [](\A i \in UserIds :
            /\ \A p \in Passwords \cup {PwNone} : users[i].password # RawPassword(p)
            /\ lastPw[i] # PwNone => CheckPassword(lastPw[i], users[i].password))
    /\ [][\A id \in UserIds, e \in ValidEmails \cup {AbsentEmail} :
            SerializerUpdate(id, e, PwNone)
               => users'[id].password = users[id].password]_vars

\* A row registered with one password and since updated to another.
C7_Witness ==
    /\ uresp = [op |-> "update", error |-> "none"]
    /\ \E i \in UserIds :
         /\ lastPw[i] = 2
         /\ CheckPassword(2, users[i].password)
         /\ ~CheckPassword(1, users[i].password)

-----------------------------------------------------------------------------
(* Properties of wait_for_db                                               *)

Written(m) == \E i \in DOMAIN stdout : stdout[i] = m

\* C10: "Database Available" is written, and the command ends, only after a
\* check has succeeded; every OperationalError of either kind is caught and
\* followed by another check; once a check has succeeded the command ends;
\* and if the database comes up and stays up the command ends.
C10_WaitForDb ==
    /\ [](Written(MsgAvailable) => check_ok)
    /\ [](pc = "done" => (check_ok /\ db_up = TRUE))
    /\ [][exc' # "none" => pc' = "except"]_vars
    /\ (pc = "except") ~> (pc = "check")
    /\ check_ok ~> (pc = "done")
    /\ (<>[](db = "up")) => <>(pc = "done")

\* The command has ended after retrying the check more than once.
C10_Witness ==
    /\ pc = "done"
    /\ Retries >= 2
    /\ Written(MsgAvailable)

====
